---- MODULE Spec2Model ----
(***************************************************************************)
(* A model of Martomate/calculator: the cursor primitives, the term and    *)
(* expression parser and parse_line (src/src/parser.rs), the tree and its  *)
(* evaluator (src/src/repr.rs), and the two front-end loops                *)
(* (src/src/main.rs, src/src/cli.rs).                                      *)
(*                                                                         *)
(* Text is a sequence of characters, each a string.  The string "U+00E9"   *)
(* is the character e-acute and stands for the characters, other than      *)
(* digits, whose UTF-8 encoding is longer than one byte.                   *)
(* An f64 is a sign, a class (finite, infinite, NaN) and, when finite, a   *)
(* normalised fraction; rounding and overflow are outside the model (the   *)
(* literals are short).                                                    *)
(***************************************************************************)
EXTENDS Integers, Sequences, FiniteSets, TLC

VARIABLES front, stdin, chain, pos, line, bytes_read, pc, res, val, out

vars == <<front, stdin, chain, pos, line, bytes_read, pc, res, val, out>>

(***************************************************************************)
(* Bounds of the model.                                                    *)
(***************************************************************************)
MaxLen == 4
MaxOps == 3
MaxInput == 4
MaxOut == 12

(***************************************************************************)
(* Characters.                                                             *)
(***************************************************************************)
Digits == {"0", "1", "2", "3"}

OperatorChars == {"+", "-", "*", "/"}

\* The number of bytes of a character's UTF-8 encoding.
Utf8Len(c) == IF c = "U+00E9" THEN 2 ELSE 1

DigitValue(c) == CASE c = "0" -> 0 [] c = "1" -> 1 [] c = "2" -> 2 [] c = "3" -> 3

DigitChar(n) == CASE n = 0 -> "0" [] n = 1 -> "1" [] n = 2 -> "2" [] n = 3 -> "3"
                  [] n = 4 -> "4" [] n = 5 -> "5" [] n = 6 -> "6" [] n = 7 -> "7"
                  [] n = 8 -> "8" [] n = 9 -> "9"

\* The text after the first n characters.
Drop(s, n) == SubSeq(s, n + 1, Len(s))

(***************************************************************************)
(* f64 values.                                                             *)
(***************************************************************************)
RECURSIVE Gcd(_, _)
Gcd(a, b) == IF b = 0 THEN a ELSE Gcd(b, a % b)

Abs(i) == IF i < 0 THEN -i ELSE i

Fin(neg, n, d) ==
    LET g == Gcd(n, d)
    IN  [c |-> "fin", neg |-> neg, n |-> n \div g, d |-> d \div g]

Inf(neg) == [c |-> "inf", neg |-> neg, n |-> 0, d |-> 1]

NaN == [c |-> "nan", neg |-> FALSE, n |-> 0, d |-> 1]

IsZero(x) == x.c = "fin" /\ x.n = 0

Neg(x) == IF x.c = "nan" THEN x ELSE [x EXCEPT !.neg = ~x.neg]

\* a + b of IEEE-754, round to nearest.
FAdd(a, b) ==
    CASE a.c = "nan" \/ b.c = "nan" -> NaN
      [] a.c = "inf" /\ b.c = "inf" -> IF a.neg = b.neg THEN a ELSE NaN
      [] a.c = "inf" /\ b.c = "fin" -> a
      [] a.c = "fin" /\ b.c = "inf" -> b
      [] OTHER ->
           LET sa == IF a.neg THEN -a.n ELSE a.n
               sb == IF b.neg THEN -b.n ELSE b.n
               s  == sa * b.d + sb * a.d
           IN  IF s = 0
               THEN Fin(a.neg /\ b.neg, 0, 1)
               ELSE Fin(s < 0, Abs(s), a.d * b.d)

FSub(a, b) == FAdd(a, Neg(b))

FMul(a, b) ==
    CASE a.c = "nan" \/ b.c = "nan" -> NaN
      [] (a.c = "inf" /\ IsZero(b)) \/ (IsZero(a) /\ b.c = "inf") -> NaN
      [] a.c = "inf" \/ b.c = "inf" -> Inf(a.neg # b.neg)
      [] OTHER -> Fin(a.neg # b.neg, a.n * b.n, a.d * b.d)

FDiv(a, b) ==
    CASE a.c = "nan" \/ b.c = "nan" -> NaN
      [] a.c = "inf" /\ b.c = "inf" -> NaN
      [] IsZero(a) /\ IsZero(b) -> NaN
      [] a.c = "inf" -> Inf(a.neg # b.neg)
      [] b.c = "inf" -> Fin(a.neg # b.neg, 0, 1)
      [] IsZero(b) -> Inf(a.neg # b.neg)
      [] OTHER -> Fin(a.neg # b.neg, a.n * b.d, a.d * b.n)

(***************************************************************************)
(* The tree (repr.rs).                                                     *)
(***************************************************************************)
Float(v) == [k |-> "Float", v |-> v]

Operation_new(op, params) == [k |-> "Op", op |-> op, params |-> params]

precedence(op) ==
    CASE op = "Add" -> 2
      [] op = "Sub" -> 2
      [] op = "Mul" -> 1
      [] op = "Div" -> 1

\* Results: Ok, Err, None (an Option's miss) and Panic (the thread unwinds).
None == [tag |-> "None"]

Panic == [tag |-> "Panic"]

Err(msg) == [tag |-> "Err", msg |-> msg]

(***************************************************************************)
(* The cursor primitives (parser.rs).                                      *)
(***************************************************************************)
consume(s, c) ==
    IF s # << >> /\ Head(s) = c
    THEN [tag |-> "Some", rest |-> Tail(s)]
    ELSE None

\* chars().next() is the first character, and &self.0[1..] slices at byte 1:
\* it panics when byte 1 is inside the first character.
next(s) ==
    IF s = << >> THEN None
    ELSE IF Utf8Len(Head(s)) > 1 THEN Panic
    ELSE [tag |-> "Some", c |-> Head(s), rest |-> Tail(s)]

RECURSIVE spaces(_)
spaces(s) ==
    LET r == consume(s, " ")
    IN  IF r.tag = "Some" THEN spaces(r.rest) ELSE s

\* The number of leading digits of s.
RECURSIVE DigitRun(_)
DigitRun(s) ==
    IF s # << >> /\ Head(s) \in Digits THEN 1 + DigitRun(Tail(s)) ELSE 0

\* The length of the match of ^-?\d+(\.\d+)? at the start of s, 0 for no match.
FloatMatchLen(s) ==
    LET sign == IF s # << >> /\ Head(s) = "-" THEN 1 ELSE 0
        int  == DigitRun(Drop(s, sign))
        aft  == Drop(s, sign + int)
        frac == IF aft # << >> /\ Head(aft) = "." THEN DigitRun(Tail(aft)) ELSE 0
    IN  IF int = 0 THEN 0
        ELSE IF frac = 0 THEN sign + int
        ELSE sign + int + 1 + frac

\* The number a run of digits denotes.
RECURSIVE DigitsValue(_)
DigitsValue(s) ==
    IF s = << >> THEN 0
    ELSE DigitsValue(SubSeq(s, 1, Len(s) - 1)) * 10 + DigitValue(s[Len(s)])

RECURSIVE Pow10(_)
Pow10(n) == IF n = 0 THEN 1 ELSE 10 * Pow10(n - 1)

\* str::parse::<f64> of a matched literal.
ParseF64(m) ==
    LET neg  == Head(m) = "-"
        body == IF neg THEN Tail(m) ELSE m
        int  == DigitRun(body)
        frac == IF int < Len(body) THEN Drop(body, int + 1) ELSE << >>
    IN  Fin(neg, DigitsValue(SubSeq(body, 1, int)) * Pow10(Len(frac)) + DigitsValue(frac),
            Pow10(Len(frac)))

floatMatch(s, n) ==
    IF n = 0 THEN None
    ELSE [tag |-> "Some", f |-> ParseF64(SubSeq(s, 1, n)), rest |-> Drop(s, n)]

float(s) == floatMatch(s, FloatMatchLen(s))

(***************************************************************************)
(* Error messages: the fixed text and, for a formatted message, the        *)
(* formatted argument.                                                     *)
(***************************************************************************)
\* {:?} of a &str: the text between double quotes, a double quote and a
\* backslash each escaped by a backslash.
RECURSIVE EscapeDebug(_)
EscapeDebug(s) ==
    IF s = << >> THEN << >>
    ELSE (IF Head(s) \in {"\"", "\\"} THEN <<"\\", Head(s)>> ELSE <<Head(s)>>)
             \o EscapeDebug(Tail(s))

DebugFmt(s) == <<"\"">> \o EscapeDebug(s) \o <<"\"">>

InvalidTerm == [text |-> "invalid term", arg |-> << >>]

InvalidOperator == [text |-> "invalid operator", arg |-> << >>]

UnsupportedOperator(c) == [text |-> "unsupported operator: ", arg |-> <<c>>]

UnparsedEnd(rest) ==
    [text |-> "could not parse the end of the imput, namely: ", arg |-> DebugFmt(rest)]

(***************************************************************************)
(* The parser (parser.rs).                                                 *)
(***************************************************************************)
OperatorOf(c) ==
    CASE c = "+" -> "Add"
      [] c = "-" -> "Sub"
      [] c = "*" -> "Mul"
      [] c = "/" -> "Div"

\* The greatest precedence value instead of the least.
MaxPrecedence(ops) ==
    CHOOSE m \in {precedence(ops[i].op) : i \in 1..Len(ops)} :
        \A i \in 1..Len(ops) : m >= precedence(ops[i].op)

\* The least precedence value among the collected operators.
MinPrecedence(ops) ==
    CHOOSE m \in {precedence(ops[i].op) : i \in 1..Len(ops)} :
        \A i \in 1..Len(ops) : m <= precedence(ops[i].op)

\* The last position instead of the first.
PositionLast(ops, m) ==
    CHOOSE i \in 1..Len(ops) :
        /\ precedence(ops[i].op) = m
        /\ \A j \in (i + 1)..Len(ops) : precedence(ops[j].op) # m

\* The first position (from 1) of an operator of precedence value m.
Position(ops, m) ==
    CHOOSE i \in 1..Len(ops) :
        /\ precedence(ops[i].op) = m
        /\ \A j \in 1..(i - 1) : precedence(ops[j].op) # m

Remove(ops, idx) == SubSeq(ops, 1, idx - 1) \o SubSeq(ops, idx + 1, Len(ops))

\* The second loop of expr: while an operator is left, the first one of the
\* least precedence value takes the operand to its left and its own.
RECURSIVE reduceOps(_, _)
reduceOps(a, ops) ==
    IF ops = << >> THEN a
    ELSE LET idx == Position(ops, MinPrecedence(ops))
             op  == ops[idx].op
             b   == ops[idx].b
         IN  IF idx = 1
             THEN reduceOps(Operation_new(op, <<a, b>>), Remove(ops, idx))
             ELSE reduceOps(a,
                      Remove([ops EXCEPT ![idx - 1].b =
                                  Operation_new(op, <<ops[idx - 1].b, b>>)], idx))

\* The operators below are written one step a definition, each step taking
\* the result of the step before as its parameter.
RECURSIVE term(_), expr(_), collectOps(_, _)

\* term: _ => self.float().map(|(f, p)| (f.into(), p))
termFloat(f) ==
    IF f.tag = "None" THEN None
    ELSE [tag |-> "Some", e |-> Float(f.f), rest |-> f.rest]

\* term: let p = p.consume(')')?; Some((e, p))
termClose(e, q) ==
    IF q.tag = "None" THEN None
    ELSE [tag |-> "Some", e |-> e, rest |-> q.rest]

\* term: let (e, p) = p.expr().ok()?;
termParen(r) ==
    IF r.tag = "Panic" THEN Panic
    ELSE IF r.tag = "Err" THEN None
    ELSE termClose(r.e, consume(r.rest, ")"))

\* term: the match on self.next()
termNext(s, n) ==
    IF n.tag # "Some" THEN n
    ELSE IF n.c = "(" THEN termParen(expr(n.rest))
    ELSE termFloat(float(s))

term(s) == termNext(s, next(s))

\* The closure of expr's first loop, from its term on.
opStepTerm(c, t) ==
    IF t.tag = "Panic" THEN Panic
    ELSE IF t.tag = "None" THEN Err(InvalidTerm)
    ELSE [tag |-> "Ok", op |-> OperatorOf(c), b |-> t.e, rest |-> t.rest]

\* The closure of expr's first loop, from its match on p.next() on.
opStepNext(n) ==
    IF n.tag = "Panic" THEN Panic
    ELSE IF n.tag = "None" THEN Err(InvalidOperator)
    ELSE IF n.c \notin OperatorChars THEN Err(UnsupportedOperator(n.c))
    ELSE opStepTerm(n.c, term(spaces(n.rest)))

\* The closure of expr's first loop: an operator and the term after it.
opStep(p) == opStepNext(next(spaces(p)))

\* expr's first loop goes on while the closure returns Ok, and keeps the
\* cursor of the last Ok.
collectNext(p, ops, r) ==
    IF r.tag = "Panic" THEN Panic
    ELSE IF r.tag = "Ok"
    THEN collectOps(r.rest, Append(ops, [op |-> r.op, b |-> r.b]))
    ELSE [tag |-> "Ok", ops |-> ops, rest |-> p]

collectOps(p, ops) == collectNext(p, ops, opStep(p))

\* expr, from its second loop on.
exprReduce(a, c) ==
    IF c.tag = "Panic" THEN Panic
    ELSE [tag |-> "Ok", e |-> reduceOps(a, c.ops), rest |-> c.rest]

\* expr, from its first term on.
exprTerm(t) ==
    IF t.tag = "Panic" THEN Panic
    ELSE IF t.tag = "None" THEN Err(InvalidTerm)
    ELSE exprReduce(t.e, collectOps(spaces(t.rest), << >>))

expr(s) == exprTerm(term(spaces(s)))

\* parse_line, after p.spaces().
parseEnd(e, p) ==
    IF p # << >> THEN Err(UnparsedEnd(p)) ELSE [tag |-> "Ok", e |-> e]

\* parse_line, after Parser(line).expr()?.
parseExpr(r) ==
    IF r.tag # "Ok" THEN r ELSE parseEnd(r.e, spaces(r.rest))

parse_line(ln) == parseExpr(expr(ln))

(***************************************************************************)
(* The evaluator (repr.rs).                                                *)
(***************************************************************************)
Apply(op, a, b) ==
    CASE op = "Add" -> FAdd(a, b)
      [] op = "Sub" -> FSub(a, b)
      [] op = "Mul" -> FMul(a, b)
      [] op = "Div" -> FDiv(a, b)

\* Iterator::reduce: None for no item, else the fold from the left.
RECURSIVE Fold(_, _, _)
Fold(op, acc, xs) ==
    IF xs = << >> THEN acc ELSE Fold(op, Apply(op, acc, Head(xs)), Tail(xs))

Reduce(op, xs) ==
    IF xs = << >> THEN None ELSE [tag |-> "Some", v |-> Fold(op, Head(xs), Tail(xs))]

RECURSIVE evaluate(_), evaluate_params(_, _)

\* evaluate_params: res.push(p.evaluate()?) and the rest of the loop.
paramsNext(params, acc, r) ==
    IF r.tag # "Ok" THEN r
    ELSE evaluate_params(Tail(params), Append(acc, r.v))

\* The loop of Operation::evaluate_params over the parameters left, acc the
\* values so far; the first Err (or panic) ends it.
evaluate_params(params, acc) ==
    IF params = << >> THEN [tag |-> "Ok", vs |-> acc]
    ELSE paramsNext(params, acc, evaluate(Head(params)))

\* Operation::evaluate: .reduce(..).unwrap(), which panics on None.
unwrapReduce(r) ==
    IF r.tag = "None" THEN Panic ELSE [tag |-> "Ok", v |-> r.v]

\* A division by zero made an error instead of a value.
operationEvaluateChecked(op, ps) ==
    IF ps.tag # "Ok" THEN ps
    ELSE IF op = "Div" /\ \E i \in 2..Len(ps.vs) : IsZero(ps.vs[i])
    THEN Err([text |-> "division by zero", arg |-> << >>])
    ELSE unwrapReduce(Reduce(op, ps.vs))

\* Operation::evaluate: self.evaluate_params()? and the fold.
operationEvaluate(op, ps) ==
    IF ps.tag # "Ok" THEN ps ELSE unwrapReduce(Reduce(op, ps.vs))

\* Expr::evaluate and Operation::evaluate.
evaluate(e) ==
    IF e.k = "Float" THEN [tag |-> "Ok", v |-> e.v]
    ELSE operationEvaluate(e.op, evaluate_params(e.params, << >>))

(***************************************************************************)
(* Output (main.rs, cli.rs): f64's to_string, and what is written.         *)
(***************************************************************************)
RECURSIVE IntDigits(_)
IntDigits(n) ==
    IF n < 10 THEN <<DigitChar(n)>> ELSE Append(IntDigits(n \div 10), DigitChar(n % 10))

\* The digits after the point of r / d (r < d), at most k of them.
RECURSIVE FracDigits(_, _, _)
FracDigits(r, d, k) ==
    IF r = 0 \/ k = 0 THEN << >>
    ELSE <<DigitChar((r * 10) \div d)>> \o FracDigits((r * 10) % d, d, k - 1)

to_string(v) ==
    CASE v.c = "nan" -> <<"N", "a", "N">>
      [] v.c = "inf" -> (IF v.neg THEN <<"-">> ELSE << >>) \o <<"i", "n", "f">>
      [] OTHER -> (IF v.neg THEN <<"-">> ELSE << >>)
                      \o IntDigits(v.n \div v.d)
                      \o (IF v.n % v.d = 0 THEN << >>
                          ELSE <<".">> \o FracDigits(v.n % v.d, v.d, 16))

\* write!(stdout, "> ")
PromptText == [color |-> "none", text |-> "> ", arg |-> << >>, newline |-> FALSE]

\* writeln!(stdout, "{}", res.to_string().green())
GreenLine(v) == [color |-> "green", text |-> "", arg |-> to_string(v), newline |-> TRUE]

\* writeln!(stdout, "{}", err.red())
RedLine(msg) == [color |-> "red", text |-> msg.text, arg |-> msg.arg, newline |-> TRUE]

\* What the loop writes for a parsed (and evaluated) line.
OutputLine(r, v) ==
    IF r.tag = "Err" THEN RedLine(r.msg)
    ELSE IF v.tag = "Err" THEN RedLine(v.msg)
    ELSE GreenLine(v.v)

(***************************************************************************)
(* Input.                                                                  *)
(***************************************************************************)
Strings(alphabet, n) == UNION {[1..k -> alphabet] : k \in 0..n}

Alphabet == {"0", "1", "+", "-", "*", "/", "(", ")", " ", ".", "U+00E9"}

CliAlphabet == {"1", "2", "+", "*", "U+00E9", "\n"}

RECURSIVE Utf8Bytes(_)
Utf8Bytes(s) == IF s = << >> THEN 0 ELSE Utf8Len(Head(s)) + Utf8Bytes(Tail(s))

\* The number of characters BufRead::read_line takes from s: up to and
\* with the first newline, or all of s.
RECURSIVE LineLen(_)
LineLen(s) ==
    IF s = << >> THEN 0
    ELSE IF Head(s) = "\n" THEN 1
    ELSE 1 + LineLen(Tail(s))

\* line.strip_suffix('\n').unwrap_or_else(|| &line)
StripNewline(s) ==
    IF s # << >> /\ s[Len(s)] = "\n" THEN SubSeq(s, 1, Len(s) - 1) ELSE s

\* A chain of terms and operators, as text: t1 op1 t2 ... opN tN+1.
RECURSIVE ChainText(_, _)
ChainText(ts, os) ==
    IF os = << >> THEN Head(ts)
    ELSE Head(ts) \o <<Head(os)>> \o ChainText(Tail(ts), Tail(os))

TermTexts == {<<"1">>, <<"2">>, <<"3">>, <<"(", "2", "-", "-", "1", "*", "3", ")">>}

Chains ==
    UNION {[ts : [1..(n + 1) -> TermTexts], os : [1..n -> OperatorChars]] : n \in 0..MaxOps}

(***************************************************************************)
(* The state machine.  pc is the position in the loop of main or run_cli:  *)
(* prompt, read, parse, evaluate, write; done after a return, panicked     *)
(* after a panic.  front is the caller: main, run_cli, or parse_line for a *)
(* direct call of parse_line and evaluate (as the unit tests make).        *)
(***************************************************************************)
Idle == [tag |-> "None"]

NoChain == [ts |-> << >>, os |-> << >>]

InitCall ==
    /\ front = "parse_line"
    /\ stdin = << >>
    /\ pos = 0
    /\ bytes_read = 0
    /\ pc = "parse"
    /\ res = Idle
    /\ val = Idle
    /\ out = << >>

Init ==
    /\ InitCall
    /\ chain = NoChain
    /\ line \in Strings(Alphabet, MaxLen)

\* The line is a chain of terms and operators, kept in chain.
InitChain ==
    /\ InitCall
    /\ chain \in Chains
    /\ line = ChainText(chain.ts, chain.os)

InitCli ==
    /\ front \in {"main", "run_cli"}
    /\ stdin \in Strings(CliAlphabet, MaxInput)
    /\ chain = NoChain
    /\ pos = 0
    /\ line = << >>
    /\ bytes_read = 0
    /\ pc = "prompt"
    /\ res = Idle
    /\ val = Idle
    /\ out = << >>

\* print!("> ") / write!(stdout, "> ")?, flush, line.clear()
\* (the model stops a loop that has written MaxOut times)
Prompt ==
    /\ pc = "prompt"
    /\ Len(out) < MaxOut
    /\ out' = Append(out, PromptText)
    /\ line' = << >>
    /\ pc' = "read"
    /\ UNCHANGED <<front, stdin, chain, pos, bytes_read, res, val>>

\* read_line, run_cli's return at end of input (main has none), strip_suffix.
ReadLine ==
    /\ pc = "read"
    /\ LET n    == LineLen(Drop(stdin, pos))
           text == SubSeq(stdin, pos + 1, pos + n)
       IN  /\ pos' = pos + n
           /\ bytes_read' = Utf8Bytes(text)
           /\ line' = StripNewline(text)
           /\ pc' = IF front = "run_cli" /\ Utf8Bytes(text) = 0 THEN "done" ELSE "parse"
    /\ UNCHANGED <<front, stdin, chain, res, val, out>>

\* parser::parse_line(line)
ParseLine ==
    /\ pc = "parse"
    /\ res' = parse_line(line)
    /\ val' = Idle
    /\ pc' = CASE res'.tag = "Panic" -> "panicked"
               [] res'.tag = "Ok" -> "evaluate"
               [] OTHER -> IF front = "parse_line" THEN "done" ELSE "write"
    /\ UNCHANGED <<front, stdin, chain, pos, line, bytes_read, out>>

\* v.evaluate()
Evaluate ==
    /\ pc = "evaluate"
    /\ val' = evaluate(res.e)
    /\ pc' = IF val'.tag = "Panic" THEN "panicked"
             ELSE IF front = "parse_line" THEN "done" ELSE "write"
    /\ UNCHANGED <<front, stdin, chain, pos, line, bytes_read, res, out>>

\* println! / writeln! of the result or of the error
WriteLine ==
    /\ pc = "write"
    /\ out' = Append(out, OutputLine(res, val))
    /\ pc' = "prompt"
    /\ UNCHANGED <<front, stdin, chain, pos, line, bytes_read, res, val>>

NextCall == ParseLine \/ Evaluate

NextCli == Prompt \/ ReadLine \/ ParseLine \/ Evaluate \/ WriteLine

Spec == Init /\ [][NextCall]_vars

SpecChain == InitChain /\ [][NextCall]_vars

SpecCli == InitCli /\ [][NextCli]_vars

(***************************************************************************)
(* The expression rule of spec.md, section 4.2: precedence climbing with a *)
(* bound max_precedence, the reference the collect-then-reduce loops of    *)
(* expr are compared with.                                                 *)
(***************************************************************************)
\* A bound looser than every operator's precedence value.
Loosest == precedence("Add") + 1

RECURSIVE parse_term(_), parse_expr(_, _), parse_expr_loop(_, _, _)

parse_term(s) ==
    LET p == spaces(s)
    IN  IF p # << >> /\ Head(p) = "("
        THEN LET r == parse_expr(Tail(p), Loosest)
             IN  IF r.tag # "Ok" THEN r
                 ELSE IF r.rest # << >> /\ Head(r.rest) = ")"
                 THEN [tag |-> "Ok", e |-> r.e, rest |-> Tail(r.rest)]
                 ELSE Err([text |-> "unclosed parenthesis", arg |-> << >>])
        ELSE LET f == float(p)
             IN  IF f.tag = "None"
                 THEN Err([text |-> "invalid term: ", arg |-> DebugFmt(p)])
                 ELSE [tag |-> "Ok", e |-> Float(f.f), rest |-> f.rest]

parse_expr_loop(a, s, max_precedence) ==
    LET p == spaces(s)
    IN  IF p = << >> \/ Head(p) \notin OperatorChars
        THEN [tag |-> "Ok", e |-> a, rest |-> p]
        ELSE LET op == OperatorOf(Head(p))
             IN  IF ~(precedence(op) < max_precedence)
                 THEN [tag |-> "Ok", e |-> a, rest |-> p]
                 ELSE LET r == parse_expr(spaces(Tail(p)), precedence(op))
                      IN  IF r.tag # "Ok" THEN r
                          ELSE parse_expr_loop(Operation_new(op, <<a, r.e>>), r.rest,
                                               max_precedence)

parse_expr(s, max_precedence) ==
    LET t == parse_term(s)
    IN  IF t.tag # "Ok" THEN t ELSE parse_expr_loop(t.e, t.rest, max_precedence)

\* The top-level entry: every operator is eligible, and nothing may be left.
parse(ln) ==
    LET r == parse_expr(ln, Loosest)
    IN  IF r.tag # "Ok" THEN r
        ELSE IF spaces(r.rest) # << >> THEN Err(UnparsedEnd(spaces(r.rest)))
        ELSE [tag |-> "Ok", e |-> r.e]

(***************************************************************************)
(* Properties.                                                             *)
(***************************************************************************)
Num(n) == Float(Fin(FALSE, n, 1))

\* C1: for every input line, parse_line returns Ok or Err; it never panics.
C1_ParseLineNeverPanics == res.tag # "Panic"

\* ln is a term, then an operator, then text that is no term.
OperatorThenNoTerm(ln) ==
    LET t == term(spaces(ln))
    IN  /\ t.tag = "Some"
        /\ LET n == next(spaces(t.rest))
           IN  /\ n.tag = "Some"
               /\ n.c \in OperatorChars
               /\ term(spaces(n.rest)).tag = "None"

\* The text after the first operator of ln and the spaces behind it.
AfterFirstOperator(ln) == spaces(next(spaces(term(spaces(ln)).rest)).rest)

\* C2: when an operator has been read and the text after it is no term,
\* parse_line fails with the message invalid term: "<that text>".
C2_InvalidTermNamesText ==
    (pc # "parse" /\ OperatorThenNoTerm(line))
        => res = Err([text |-> "invalid term: ", arg |-> DebugFmt(AfterFirstOperator(line))])

\* The '-' at position i of ln stands where a term starts.
SignPosition(ln, i) ==
    LET before == {j \in 1..(i - 1) : ln[j] # " "}
    IN  \/ before = {}
        \/ LET j == CHOOSE k \in before : \A m \in before : m <= k
           IN  ln[j] \in OperatorChars \cup {"("}

\* Between the characters i and i + 1 of ln no numeric literal goes on.
TokenBoundary(ln, i) ==
    \/ i = 0
    \/ i = Len(ln)
    \/ ~ \/ (ln[i] \in Digits \cup {"."} /\ ln[i + 1] \in Digits \cup {"."})
         \/ (ln[i] = "-" /\ ln[i + 1] \in Digits /\ SignPosition(ln, i))

InsertSpace(ln, i) == SubSeq(ln, 1, i) \o <<" ">> \o SubSeq(ln, i + 1, Len(ln))

\* C3: a line parse_line accepts is accepted, with the same tree, when a
\* space is put before or after any of its tokens.
C3_SpaceInsensitive ==
    res.tag = "Ok"
        => \A i \in 0..Len(line) :
               TokenBoundary(line, i) => parse_line(InsertSpace(line, i)) = res

\* C4: once a read has returned no byte (end of input), the loop of main
\* and of run_cli has returned: it does not go on with an empty line.
C4_StopsAtEndOfInput ==
    (bytes_read = 0 /\ Len(out) > 0 /\ pc # "read") => pc = "done"

SameRank(os) ==
    \A i, j \in 1..Len(os) :
        precedence(OperatorOf(os[i])) = precedence(OperatorOf(os[j]))

\* ((acc op1 t1) op2 t2) ..., the terms' trees as term reads them.
RECURSIVE LeftNested(_, _, _)
LeftNested(acc, ts, os) ==
    IF os = << >> THEN acc
    ELSE LeftNested(Operation_new(OperatorOf(Head(os)), <<acc, term(Head(ts)).e>>),
                    Tail(ts), Tail(os))

\* C5: a chain t1 op1 t2 ... opN tN+1 (N >= 1) of operators of one rank
\* parses to ((t1 op1 t2) op2 t3) ... opN tN+1, and 1-2-3 evaluates to -4.
C5_LeftAssociative ==
    (pc # "parse" /\ Len(chain.os) >= 1 /\ SameRank(chain.os))
        => /\ res.tag = "Ok"
           /\ res.e = LeftNested(term(Head(chain.ts)).e, Tail(chain.ts), chain.os)
           /\ (pc = "done" /\ line = <<"1", "-", "2", "-", "3">>)
                  => val = [tag |-> "Ok", v |-> Fin(TRUE, 4, 1)]

C5_Witness ==
    /\ pc = "done"
    /\ line = <<"1", "-", "2", "-", "3">>
    /\ res.e = Operation_new("Sub", <<Operation_new("Sub", <<Num(1), Num(2)>>), Num(3)>>)
    /\ val.v = Fin(TRUE, 4, 1)

\* C6: for a well-formed line, the tree of parse_line's collect-then-reduce
\* loops is the tree of the precedence-climbing parse_expr of spec.md.
C6_SameTreeAsPrecedenceClimbing ==
    pc # "parse" => /\ res.tag = "Ok"
                    /\ parse(line).tag = "Ok"
                    /\ res.e = parse(line).e

C6_Witness ==
    /\ pc = "done"
    /\ line = <<"1", "+", "2", "*", "3", "-", "(", "2", "-", "-", "1", "*", "3", ")">>
    /\ res.e.op = "Sub"
    /\ res.e.params[1] =
           Operation_new("Add", <<Num(1), Operation_new("Mul", <<Num(2), Num(3)>>)>>)
    /\ val.v = Fin(FALSE, 2, 1)

RECURSIVE EveryNodeHasTwo(_)
EveryNodeHasTwo(e) ==
    \/ e.k = "Float"
    \/ /\ Len(e.params) >= 2
       /\ \A i \in 1..Len(e.params) : EveryNodeHasTwo(e.params[i])

\* e is a division whose right operand evaluates to zero.
DivisionByZero(e) ==
    /\ e.k = "Op"
    /\ e.op = "Div"
    /\ IsZero(evaluate(e.params[Len(e.params)]).v)

\* C7: in a tree parse_line returns every operation has at least two
\* children, and evaluate returns Ok(value) for it, never Err nor a panic;
\* a division by zero gives an infinity or NaN.
C7_EvaluateTotal ==
    /\ res.tag = "Ok" => EveryNodeHasTwo(res.e)
    /\ pc = "panicked" => res.tag = "Panic"
    /\ (pc = "done" /\ res.tag = "Ok")
           => /\ val.tag = "Ok"
              /\ DivisionByZero(res.e) => val.v.c \in {"inf", "nan"}

C7_Witness ==
    /\ pc = "done"
    /\ line = <<"1", "/", "-", "0">>
    /\ DivisionByZero(res.e)
    /\ val = [tag |-> "Ok", v |-> Inf(TRUE)]

\* s opens a parenthesis around an expression and ends without closing it.
UnclosedAt(s) ==
    /\ s # << >>
    /\ Head(s) = "("
    /\ LET r == expr(Tail(s))
       IN  r.tag = "Ok" /\ spaces(r.rest) = << >>

\* The shapes (1, (1+2 and 1+(2.
UnclosedParenthesis(ln) ==
    \/ UnclosedAt(spaces(ln))
    \/ OperatorThenNoTerm(ln) /\ UnclosedAt(AfterFirstOperator(ln))

\* C8: a line whose '(' is not closed is rejected with an error of its own,
\* neither the invalid-term error nor the unconsumed-suffix error.
C8_UnclosedParenthesisError ==
    (pc # "parse" /\ UnclosedParenthesis(line))
        => /\ res.tag = "Err"
           /\ res.msg.text \notin {InvalidTerm.text, UnparsedEnd(<< >>).text}

\* C9: parse_line returns Ok only for a line consumed whole; text left
\* after the expression and the spaces behind it is reported, as it is, by
\* the error for the end of the input; a character that is no operator
\* where an operator may stand is left and reported by that error.
C9_RestIsReported ==
    pc # "parse"
        => /\ LET r == expr(line)
              IN  /\ res.tag = "Ok" => (r.tag = "Ok" /\ spaces(r.rest) = << >>)
                  /\ (r.tag = "Ok" /\ spaces(r.rest) # << >>)
                         => res = Err(UnparsedEnd(spaces(r.rest)))
           /\ LET t == term(spaces(line))
              IN  (/\ t.tag = "Some"
                   /\ spaces(t.rest) # << >>
                   /\ Head(spaces(t.rest)) \notin OperatorChars)
                      => res = Err(UnparsedEnd(spaces(t.rest)))

\* The lines of an input: what lies between its newlines.
RECURSIVE InputLines(_)
InputLines(s) ==
    IF s = << >> THEN << >>
    ELSE <<StripNewline(SubSeq(s, 1, LineLen(s)))>> \o InputLines(Drop(s, LineLen(s)))

\* What is written for one line, from that line alone.
ExpectedLine(ln) ==
    LET r == parse_line(ln)
    IN  OutputLine(r, IF r.tag = "Ok" THEN evaluate(r.e) ELSE Idle)

RECURSIVE ExpectedOutput(_)
ExpectedOutput(lines) ==
    IF lines = << >> THEN <<PromptText>>
    ELSE <<PromptText, ExpectedLine(Head(lines))>> \o ExpectedOutput(Tail(lines))

\* C10: run_cli ends by returning, and has then written, for each line of
\* the input in order, a prompt and one line of output that depends on this
\* line alone, and a last prompt.
C10_OneCyclePerLine ==
    front = "run_cli"
        => /\ pc # "panicked"
           /\ pc = "done" => out = ExpectedOutput(InputLines(stdin))

====
